---------------------------- MODULE Spec2Model ----------------------------
(*************************************************************************)
(* canping168: an ATmega168 that answers every CAN frame received by an  *)
(* MCP2515 (attached over SPI) with a one-byte frame sent to SID 0x07.   *)
(*                                                                       *)
(* The model follows src/main.c statement by statement.  main() and the  *)
(* INT0 interrupt service routine are instruction tables (MainCode,      *)
(* ISRCode); the processor executes the instruction of the activation   *)
(* on top of the call stack.  The interrupt hardware (global enable bit  *)
(* I of SREG, EIMSK.INT0, the level of the INT0 pin), the USART data     *)
(* register and the MCP2515's receive notification are the environment.  *)
(*************************************************************************)
EXTENDS Integers, Sequences, FiniteSets, TLC

(***************************************************************************)
(* Bounds of the model.                                                    *)
(***************************************************************************)
\* number of CAN frames the bus delivers during one run
MaxFrames == 2

\* characters of each printf that are pushed through usart_putchar
MaxChars == 2

\* depth of interrupt nesting the model can represent
MaxDepth == 2

\* first data bytes carried by the incoming frames
RxValues == {0, 16, 255}

(***************************************************************************)
(* MCP2515 instruction bytes and register addresses used by main.c.        *)
(***************************************************************************)
OP_RESET == 192
\* 0xC0

OP_WRITE == 2
\* 0x02

OP_READ_RXB0D0 == 146
\* 0x92: read receive buffer 0 starting at its first data byte

OP_RTS_TXB0 == 129
\* 0x81: request to send transmit buffer 0

REG_CNF3 == 40
\* 0x28, followed by CNF2 (0x29) and CNF1 (0x2A)

REG_CANINTE == 43
\* 0x2B

REG_RXB0CTRL == 96
\* 0x60

REG_CANCTRL == 15
\* 0x0F

REG_TXB0SIDH == 49
\* 0x31, followed by SIDL, EID8, EID0, DLC, D0

(***************************************************************************)
(* The program text.                                                       *)
(***************************************************************************)
Ins(o, a, l) == [op |-> o, arg |-> a, line |-> l]

\* interrupts enabled globally right after INT0 is unmasked
MainPrologue_SeiWithMask ==
    << Ins("usart_init", 0, 107),
       Ins("printf", 21, 111),
       Ins("printf", 25, 115),
       Ins("io_init", 0, 117),
       Ins("sei", 0, 118),
       Ins("spi_setup", 0, 125),
       Ins("printf", 7, 128),
       Ins("printf", 29, 132) >>

\* main(), lines 107-132: USART, I/O pins, external interrupt mask, SPI
MainPrologue ==
    << Ins("usart_init", 0, 107),
       Ins("printf", 21, 111),        \* "Main: Hello, world!\n"
       Ins("printf", 25, 115),        \* "Main: Configuring MCU... "
       Ins("io_init", 0, 117),        \* DDRB |= PB2; EIMSK |= INT0
       Ins("spi_setup", 0, 125),
       Ins("printf", 7, 128),         \* "done.\n"
       Ins("printf", 29, 132) >>      \* "Main: Configuring MCP2515... "

\* reset
MainReset ==
    << Ins("select", 0, 134),
       Ins("putch", OP_RESET, 135),
       Ins("deselect", 0, 136) >>

\* set bit timing
MainBitTiming ==
    << Ins("select", 0, 138),
       Ins("putch", OP_WRITE, 139),
       Ins("putch", REG_CNF3, 140),
       Ins("putch", 3, 141),
       Ins("putch", 158, 142),        \* 0x9E
       Ins("putch", 8, 143),
       Ins("deselect", 0, 144) >>

\* set interrupts
MainInterrupts ==
    << Ins("select", 0, 146),
       Ins("putch", OP_WRITE, 147),
       Ins("putch", REG_CANINTE, 148),
       Ins("putch", 1, 149),
       Ins("deselect", 0, 150) >>

\* accept data from any sid
MainAcceptAny ==
    << Ins("select", 0, 152),
       Ins("putch", OP_WRITE, 153),
       Ins("putch", REG_RXB0CTRL, 154),
       Ins("putch", 96, 155),         \* 0x60
       Ins("deselect", 0, 156) >>

\* enter normal operating mode
MainNormalMode ==
    << Ins("select", 0, 158),
       Ins("putch", OP_WRITE, 159),
       Ins("putch", REG_CANCTRL, 160),
       Ins("putch", 0, 161),
       Ins("deselect", 0, 162) >>

\* the filter write issued before the interrupt-enable write
MainConfig_Reordered ==
    MainReset \o MainBitTiming \o MainAcceptAny \o MainInterrupts
        \o MainNormalMode

\* main(), lines 134-162: the configuration of the MCP2515
MainConfig ==
    MainReset \o MainBitTiming \o MainInterrupts \o MainAcceptAny
        \o MainNormalMode

\* an idle loop that begins by reading the controller's status (0xA0)
MainEpilogue_Polling ==
    << Ins("printf", 7, 164),
       Ins("sei", 0, 168),
       Ins("printf", 32, 170),
       Ins("select", 0, 172),
       Ins("putch", 160, 172),
       Ins("getch", 0, 172),
       Ins("deselect", 0, 172),
       Ins("loop", 0, 172) >>

\* main(), lines 164-173: interrupts on, then the idle loop
MainEpilogue ==
    << Ins("printf", 7, 164),         \* "done.\n"
       Ins("sei", 0, 168),
       Ins("printf", 32, 170),        \* "Main: Entering main wait loop.\n"
       Ins("loop", 0, 172) >>         \* for (;;) ;

MainCode == MainPrologue \o MainConfig \o MainEpilogue

\* the read transaction without its deselect
ISRReadRx_NoDeselect ==
    << Ins("select", 0, 50),
       Ins("putch", OP_READ_RXB0D0, 51),
       Ins("getch", 0, 52) >>

\* the read done with the plain read-register instruction (0x03) at the
\* address of RXB0D0 (0x66), which leaves the receive flag set
ISRReadRx_PlainRead ==
    << Ins("select", 0, 50),
       Ins("putch", 3, 51),
       Ins("putch", 102, 51),
       Ins("getch", 0, 52),
       Ins("deselect", 0, 53) >>

\* the read done from receive buffer 1 (0x96), which clears that buffer's
\* flag and leaves the flag of buffer 0 set
ISRReadRx_Rxb1 ==
    << Ins("select", 0, 50),
       Ins("putch", 150, 51),
       Ins("getch", 0, 52),
       Ins("deselect", 0, 53) >>

\* pull first data byte from received packet
ISRReadRx ==
    << Ins("select", 0, 50),
       Ins("putch", OP_READ_RXB0D0, 51),
       Ins("getch", 0, 52),           \* data = spi_getch ()
       Ins("deselect", 0, 53) >>

\* the load with SIDL = 0xC0, which encodes SID 0x06
ISRLoadTx_WrongSid ==
    << Ins("select", 0, 57),
       Ins("putch", OP_WRITE, 58),
       Ins("putch", REG_TXB0SIDH, 59),
       Ins("putch", 0, 60),
       Ins("putch", 192, 61),
       Ins("putch", 0, 62),
       Ins("putch", 0, 63),
       Ins("putch", 1, 64),
       Ins("putch_preinc", 0, 65),
       Ins("deselect", 0, 66) >>

\* the load whose bracket also carries the request-to-send byte
ISRLoadTx_SpansRts ==
    << Ins("select", 0, 57),
       Ins("putch", OP_WRITE, 58),
       Ins("putch", REG_TXB0SIDH, 59),
       Ins("putch", 0, 60),
       Ins("putch", 224, 61),
       Ins("putch", 0, 62),
       Ins("putch", 0, 63),
       Ins("putch", 1, 64),
       Ins("putch_preinc", 0, 65),
       Ins("putch", OP_RTS_TXB0, 69),
       Ins("deselect", 0, 66) >>

\* the load stopping after the data-length byte, the payload byte left out
ISRLoadTx_NoPayload ==
    << Ins("select", 0, 57),
       Ins("putch", OP_WRITE, 58),
       Ins("putch", REG_TXB0SIDH, 59),
       Ins("putch", 0, 60),
       Ins("putch", 224, 61),
       Ins("putch", 0, 62),
       Ins("putch", 0, 63),
       Ins("putch", 1, 64),
       Ins("deselect", 0, 66) >>

\* load transmit buffer
ISRLoadTx ==
    << Ins("select", 0, 57),
       Ins("putch", OP_WRITE, 58),
       Ins("putch", REG_TXB0SIDH, 59),
       Ins("putch", 0, 60),
       Ins("putch", 224, 61),         \* 0xE0: SID address 0x07
       Ins("putch", 0, 62),
       Ins("putch", 0, 63),
       Ins("putch", 1, 64),
       Ins("putch_preinc", 0, 65),    \* spi_putch (++data)
       Ins("deselect", 0, 66) >>

\* ready-to-send set with a bit-modify of TXB0CTRL.TXREQ (0x05 0x30 0x08 0x08)
ISRSendTx_BitModify ==
    << Ins("select", 0, 68),
       Ins("putch", 5, 69),
       Ins("putch", 48, 69),
       Ins("putch", 8, 69),
       Ins("putch", 8, 69),
       Ins("deselect", 0, 70) >>

\* ready-to-send set by writing the whole of TXB0CTRL, priority bits included
\* (0x02 0x30 0x0B)
ISRSendTx_WriteCtrl ==
    << Ins("select", 0, 68),
       Ins("putch", OP_WRITE, 69),
       Ins("putch", REG_TXB0SIDH - 1, 69),
       Ins("putch", 11, 69),
       Ins("deselect", 0, 70) >>

\* flag as ready to send
ISRSendTx ==
    << Ins("select", 0, 68),
       Ins("putch", OP_RTS_TXB0, 69),
       Ins("deselect", 0, 70) >>

\* the handler requesting transmission before it loads the buffer
ISRCode_SendBeforeLoad ==
    << Ins("printf", 21, 48) >>
        \o ISRReadRx
        \o << Ins("printf", 33, 55) >>
        \o ISRSendTx
        \o ISRLoadTx
        \o << Ins("printf", 26, 72),
              Ins("printf", 20, 73),
              Ins("reti", 0, 74) >>

\* the handler spinning after it has flagged the reply, never reaching reti
ISRCode_Spins ==
    << Ins("printf", 21, 48) >>
        \o ISRReadRx
        \o << Ins("printf", 33, 55) >>
        \o ISRLoadTx
        \o ISRSendTx
        \o << Ins("loop", 0, 72) >>

\* ISR (INT0_vect)
ISRCode ==
    << Ins("printf", 21, 48) >>       \* "INT0: Entering ISR.\n"
        \o ISRReadRx
        \o << Ins("printf", 33, 55) >>  \* "INT0: Received data value 0x%02X.\n"
        \o ISRLoadTx
        \o ISRSendTx
        \o << Ins("printf", 26, 72),  \* "INT0: Replied with 0x%02X.\n"
              Ins("printf", 20, 73),  \* "INT0: Leaving ISR.\n"
              Ins("reti", 0, 74) >>

\* a saturating increment in place of the wrapping one
Incr8_Saturating(v) == IF v = 255 THEN 255 ELSE v + 1

\* ++data on a uint8_t
Incr8(v) == (v + 1) % 256

(***************************************************************************)
(* State.                                                                  *)
(***************************************************************************)
VARIABLES
    stack,      \* activations: stack[1] is main, above it the running ISRs
    sreg_i,     \* SREG.I, the global interrupt enable bit
    eimsk_int0, \* EIMSK.INT0, the INT0 mask bit
    int0,       \* the MCP2515 holds its INT pin low (receive flag set)
    rxd0,       \* RXB0D0, the first data byte of the frame in receive buffer 0
    ss,         \* the MCP2515's chip select is asserted
    udre,       \* UCSR0A.UDRE0, the USART data register is empty
    log,        \* the select/deselect brackets issued on the SPI transport so far
    stray,      \* exchanges and deselects issued while the chip was not selected
    frames,     \* the frames delivered by the bus so far
    regs,       \* the MCP2515 registers main.c addresses (TXREQ kept apart)
    txreq,      \* TXB0CTRL.TXREQ, transmit buffer 0 is flagged ready to send
    sent,       \* the frames the controller has transmitted from buffer 0
    invocations \* entries into the ISR so far

vars == << stack, sreg_i, eimsk_int0, int0, rxd0, ss, udre, log, stray,
           frames, regs, txreq, sent, invocations >>

\* An activation: the routine, the index of its next instruction, the number
\* of characters of the current printf already written, whether
\* usart_putchar has passed its wait loop, the ISR's local `data`, and the
\* number of the invocation (0 for main).
Frame(c, n) == [code |-> c, pc |-> 1, k |-> 0, w |-> FALSE, data |-> 0, inv |-> n]

Top == stack[Len(stack)]

Code(f) == IF f.code = "main" THEN MainCode ELSE ISRCode

Cur == Code(Top)[Top.pc]

SetTop(f) == [stack EXCEPT ![Len(stack)] = f]

\* the activation on top moves to its next instruction
Advance(f) == [f EXCEPT !.pc = f.pc + 1, !.k = 0, !.w = FALSE]

\* number of usart_putchar writes a printf performs
PrintfLen(n) == IF n < MaxChars THEN n ELSE MaxChars

\* one operation on the transport: what it was, who issued it, the byte sent
\* (put) or received (get)
Event(e, b) == [ev |-> e, ctx |-> Top.inv, b |-> b]

\* a bracket opened by spi_slave_select: who opened it, whether the chip was
\* already selected at that moment, the exchanges made in it, whether it has
\* been closed by spi_slave_deselect and by whom (-1: nobody yet)
NewBracket == [ctx |-> Top.inv, nested |-> ss, xs |-> << >>,
               closed |-> FALSE, closer |-> -1]

\* the log after an exchange x: it joins the open bracket
Exchanged(x) == [log EXCEPT ![Len(log)].xs = Append(@, x)]

\* main has executed the whole configuration sequence
StartupDone == stack[1].pc > Len(MainPrologue) + Len(MainConfig)

\* main has executed sei ()
SeiDone == stack[1].pc > Len(MainPrologue) + Len(MainConfig) + 2

(***************************************************************************)
(* The registers of the MCP2515 that main.c addresses.                     *)
(***************************************************************************)
\* TXB0CTRL sits just below TXB0SIDH; TXB0D0 is the sixth byte of the load
REG_TXB0CTRL == REG_TXB0SIDH - 1

REG_TXB0D0 == REG_TXB0SIDH + 5

\* TXB0SIDH, TXB0SIDL, TXB0EID8, TXB0EID0, TXB0DLC, TXB0D0: lines 59-65
TxBufferAddrs == REG_TXB0SIDH .. REG_TXB0D0

\* CNF3, CNF2, CNF1 (lines 140-143), CANINTE (148), RXB0CTRL (154),
\* CANCTRL (160)
ConfigAddrs ==
    (REG_CNF3 .. REG_CNF3 + 2) \cup {REG_CANINTE, REG_RXB0CTRL, REG_CANCTRL}

RegAddrs == ConfigAddrs \cup {REG_TXB0CTRL} \cup TxBufferAddrs

\* the power-on configuration state: the controller requests configuration
\* mode in CANCTRL, every other register modelled reads zero
ResetRegs == [a \in RegAddrs |-> IF a = REG_CANCTRL THEN 135 ELSE 0]

Init ==
    /\ stack = << Frame("main", 0) >>
    /\ sreg_i = FALSE
    /\ eimsk_int0 = FALSE
    /\ int0 = FALSE
    /\ rxd0 \in RxValues
    /\ ss = FALSE
    /\ udre = TRUE
    /\ log = << >>
    /\ stray = << >>
    /\ frames = << >>
    /\ regs = ResetRegs
    /\ txreq = FALSE
    /\ sent = << >>
    /\ invocations = 0


(***************************************************************************)
(* The MCP2515 as seen from the SPI bus.                                   *)
(***************************************************************************)
\* the exchanges made since the chip was selected
OpenBracket == IF ss /\ log # << >> THEN log[Len(log)].xs ELSE << >>

\* the instruction byte the controller latched after the chip was selected
OpenOpcode ==
    IF OpenBracket # << >> /\ OpenBracket[1].ev = "put"
    THEN OpenBracket[1].b ELSE -1

\* bytes the controller may shift out during the next exchange: the first data
\* byte of receive buffer 0 right after a read-receive-buffer instruction,
\* an undefined value otherwise
MisoBytes ==
    IF OpenOpcode = OP_READ_RXB0D0 /\ Len(OpenBracket) = 1
    THEN {rxd0} ELSE RxValues

\* the receive flag after chip select is raised: the read-receive-buffer
\* instruction clears it
Int0AfterDeselect == IF OpenOpcode = OP_READ_RXB0D0 THEN FALSE ELSE int0

\* the register the next byte of an open write instruction goes to: the
\* address byte that follows the instruction, advanced once per data byte
WriteAddr ==
    IF OpenOpcode = OP_WRITE /\ Len(OpenBracket) >= 2
    THEN OpenBracket[2].b + Len(OpenBracket) - 2 ELSE -1

\* the registers after the controller has clocked byte b in; TXB0CTRL keeps
\* its TXREQ bit in txreq
RegsAfterPut(b) ==
    IF WriteAddr = REG_TXB0CTRL
    THEN [regs EXCEPT ![REG_TXB0CTRL] = b - 8 * ((b \div 8) % 2)]
    ELSE IF WriteAddr \in RegAddrs
         THEN [regs EXCEPT ![WriteAddr] = b]
         ELSE regs

TxreqAfterPut(b) ==
    IF WriteAddr = REG_TXB0CTRL THEN (b \div 8) % 2 = 1 ELSE txreq

\* the registers after chip select is raised: the reset instruction restores
\* the power-on state
RegsAfterDeselect == IF OpenOpcode = OP_RESET THEN ResetRegs ELSE regs

\* the request-to-send instruction for buffer 0 sets TXREQ, reset clears it
TxreqAfterDeselect ==
    IF OpenOpcode = OP_RESET THEN FALSE
    ELSE IF OpenOpcode = OP_RTS_TXB0 THEN TRUE
    ELSE txreq

(***************************************************************************)
(* Steps of the processor: the instruction of the top activation.          *)
(***************************************************************************)
\* lines 107-109: UBRR0, UCSR0B, stdout
UsartInit ==
    /\ Cur.op = "usart_init"
    /\ stack' = SetTop(Advance(Top))
    /\ UNCHANGED << sreg_i, eimsk_int0, int0, rxd0, ss, udre, log, stray,
                    frames, invocations,
                    regs, txreq, sent >>

\* lines 117-118: slave select pin is an output, INT0 is unmasked
IoInit ==
    /\ Cur.op = "io_init"
    /\ eimsk_int0' = TRUE
    /\ stack' = SetTop(Advance(Top))
    /\ UNCHANGED << sreg_i, int0, rxd0, ss, udre, log, stray,
                    frames, invocations,
                    regs, txreq, sent >>

\* lines 120-126: spi_init, spi_setup_slave; the slave starts deselected
SpiSetup ==
    /\ Cur.op = "spi_setup"
    /\ ss' = FALSE
    /\ stack' = SetTop(Advance(Top))
    /\ UNCHANGED << sreg_i, eimsk_int0, int0, rxd0, udre, log, stray,
                    frames, invocations,
                    regs, txreq, sent >>

\* usart_putchar, line 90: loop_until_bit_is_set (UCSR0A, UDRE0)
PutcharWait ==
    /\ Cur.op = "printf"
    /\ ~Top.w
    /\ udre
    /\ stack' = SetTop([Top EXCEPT !.w = TRUE])
    /\ UNCHANGED << sreg_i, eimsk_int0, int0, rxd0, ss, udre, log, stray,
                    frames, invocations,
                    regs, txreq, sent >>

\* usart_putchar, line 91: UDR0 = c; printf returns after its last character
PutcharWrite ==
    /\ Cur.op = "printf"
    /\ Top.w
    /\ udre' = FALSE
    /\ stack' = SetTop(IF Top.k + 1 >= PrintfLen(Cur.arg)
                       THEN Advance(Top)
                       ELSE [Top EXCEPT !.k = Top.k + 1, !.w = FALSE])
    /\ UNCHANGED << sreg_i, eimsk_int0, int0, rxd0, ss, log, stray,
                    frames, invocations,
                    regs, txreq, sent >>

\* spi_slave_select (0)
SpiSelect ==
    /\ Cur.op = "select"
    /\ ss' = TRUE
    /\ log' = Append(log, NewBracket)
    /\ stack' = SetTop(Advance(Top))
    /\ UNCHANGED << sreg_i, eimsk_int0, int0, rxd0, udre, stray,
                    frames, invocations,
                    regs, txreq, sent >>

\* spi_putch (byte) and spi_putch (++data)
SpiPutch ==
    /\ Cur.op \in {"putch", "putch_preinc"}
    /\ LET d == IF Cur.op = "putch_preinc" THEN Incr8(Top.data) ELSE Top.data
           b == IF Cur.op = "putch_preinc" THEN d ELSE Cur.arg
       IN  /\ IF ss
              THEN log' = Exchanged(Event("put", b)) /\ stray' = stray
              ELSE stray' = Append(stray, Event("put", b)) /\ log' = log
           /\ regs' = IF ss THEN RegsAfterPut(b) ELSE regs
           /\ txreq' = IF ss THEN TxreqAfterPut(b) ELSE txreq
           /\ stack' = SetTop(Advance([Top EXCEPT !.data = d]))
    /\ UNCHANGED << sreg_i, eimsk_int0, int0, rxd0, ss, udre,
                    frames, invocations, sent >>

\* data = spi_getch ()
SpiGetch ==
    /\ Cur.op = "getch"
    /\ \E b \in MisoBytes :
          /\ IF ss
             THEN log' = Exchanged(Event("get", b)) /\ stray' = stray
             ELSE stray' = Append(stray, Event("get", b)) /\ log' = log
          /\ stack' = SetTop(Advance([Top EXCEPT !.data = b]))
    /\ UNCHANGED << sreg_i, eimsk_int0, int0, rxd0, ss, udre,
                    frames, invocations,
                    regs, txreq, sent >>

\* spi_slave_deselect (0); the controller executes the instruction it was given
SpiDeselect ==
    /\ Cur.op = "deselect"
    /\ ss' = FALSE
    /\ int0' = Int0AfterDeselect
    /\ IF ss
       THEN /\ log' = [log EXCEPT ![Len(log)].closed = TRUE,
                                  ![Len(log)].closer = Top.inv]
            /\ stray' = stray
       ELSE stray' = Append(stray, Event("desel", 0)) /\ log' = log
    /\ regs' = RegsAfterDeselect
    /\ txreq' = TxreqAfterDeselect
    /\ stack' = SetTop(Advance(Top))
    /\ UNCHANGED << sreg_i, eimsk_int0, rxd0, udre, frames, invocations, sent >>

\* line 168: sei ()
Sei ==
    /\ Cur.op = "sei"
    /\ sreg_i' = TRUE
    /\ stack' = SetTop(Advance(Top))
    /\ UNCHANGED << eimsk_int0, int0, rxd0, ss, udre, log, stray,
                    frames, invocations,
                    regs, txreq, sent >>

(***************************************************************************)
(* Interrupt entry and return.                                             *)
(***************************************************************************)
\* a handler declared so that interrupts stay enabled while it runs
IFlagInISR_NoBlock == TRUE

\* the flag I after the hardware has vectored to an ISR () handler
IFlagInISR == FALSE

\* ISR (INT0_vect), line 44: INT0 is low-level triggered (EICRA is never
\* written); the hardware clears I and runs the handler
IsrEnter ==
    /\ sreg_i /\ eimsk_int0 /\ int0
    /\ Len(stack) <= MaxDepth
    /\ invocations' = invocations + 1
    /\ stack' = Append(stack, Frame("isr", invocations + 1))
    /\ sreg_i' = IFlagInISR
    /\ UNCHANGED << eimsk_int0, int0, rxd0, ss, udre, log, stray,
                    frames , regs, txreq, sent >>

\* line 74: reti sets I again and resumes the interrupted activation
IsrReturn ==
    /\ Cur.op = "reti"
    /\ stack' = SubSeq(stack, 1, Len(stack) - 1)
    /\ sreg_i' = TRUE
    /\ UNCHANGED << eimsk_int0, int0, rxd0, ss, udre, log, stray,
                    frames, invocations,
                    regs, txreq, sent >>

(***************************************************************************)
(* Environment.                                                            *)
(***************************************************************************)
\* what the processor was doing when a frame arrived
When ==
    IF Len(stack) > 1 THEN "handler"
    ELSE IF SeiDone THEN "idle" ELSE "startup"

\* A frame with first data byte v is received and the receive flag is set.
\* While the flag of an earlier frame is still set (pending) the
\* notification is not raised a second time and the buffer keeps the earlier
\* frame.
FrameArrives(v) ==
    /\ Len(frames) < MaxFrames
    /\ frames' = Append(frames, [when |-> When, pending |-> int0])
    /\ int0' = TRUE
    /\ rxd0' = IF int0 THEN rxd0 ELSE v
    /\ UNCHANGED << stack, sreg_i, eimsk_int0, ss, udre, log, stray,
                    invocations,
                    regs, txreq, sent >>

\* the USART moves the data register into its shift register
UsartTxComplete ==
    /\ ~udre
    /\ udre' = TRUE
    /\ UNCHANGED << stack, sreg_i, eimsk_int0, int0, rxd0, ss, log, stray,
                    frames, invocations,
                    regs, txreq, sent >>

Next ==
    \/ UsartInit
    \/ IoInit
    \/ SpiSetup
    \/ PutcharWait
    \/ PutcharWrite
    \/ SpiSelect
    \/ SpiPutch
    \/ SpiGetch
    \/ SpiDeselect
    \/ Sei
    \/ IsrEnter
    \/ IsrReturn
    \/ \E v \in RxValues : FrameArrives(v)
    \/ UsartTxComplete

Spec == Init /\ [][Next]_vars

(***************************************************************************)
(* The same program with progress: the processor executes the statement of *)
(* the running activation whenever it can (every SPI exchange returns), and *)
(* the USART empties its data register after every character.              *)
(***************************************************************************)
Step ==
    \/ UsartInit
    \/ IoInit
    \/ SpiSetup
    \/ PutcharWait
    \/ PutcharWrite
    \/ SpiSelect
    \/ SpiPutch
    \/ SpiGetch
    \/ SpiDeselect
    \/ Sei
    \/ IsrReturn

FairSpec == Spec /\ WF_vars(Step) /\ WF_vars(UsartTxComplete)

(***************************************************************************)
(* The single-frame scenario over every byte value: one frame arrives,     *)
(* carrying any first data byte.                                           *)
(***************************************************************************)
InitBytes ==
    /\ stack = << Frame("main", 0) >>
    /\ sreg_i = FALSE
    /\ eimsk_int0 = FALSE
    /\ int0 = FALSE
    /\ rxd0 = 0
    /\ ss = FALSE
    /\ udre = TRUE
    /\ log = << >>
    /\ stray = << >>
    /\ frames = << >>
    /\ regs = ResetRegs
    /\ txreq = FALSE
    /\ sent = << >>
    /\ invocations = 0

FirstFrameArrives(v) == frames = << >> /\ FrameArrives(v)

NextBytes ==
    \/ UsartInit
    \/ IoInit
    \/ SpiSetup
    \/ PutcharWait
    \/ PutcharWrite
    \/ SpiSelect
    \/ SpiPutch
    \/ SpiGetch
    \/ SpiDeselect
    \/ Sei
    \/ IsrEnter
    \/ IsrReturn
    \/ \E v \in 0..255 : FirstFrameArrives(v)
    \/ UsartTxComplete

SpecBytes == InitBytes /\ [][NextBytes]_vars

(***************************************************************************)
(* Reading the log.                                                        *)
(***************************************************************************)
\* the bytes exchanged in bracket c, sent or received
Bytes(c) == [j \in 1..Len(c.xs) |-> c.xs[j].b]

\* every exchange of bracket c sent a byte
AllPuts(c) == \A j \in 1..Len(c.xs) : c.xs[j].ev = "put"

OfCtx(n, c) == c.ctx = n

\* the brackets opened by main (n = 0) or by the n-th handler invocation
CmdsOf(n) == SelectSeq(log, LAMBDA c : OfCtx(n, c))

IsPrefix(p, q) == Len(p) <= Len(q) /\ \A i \in 1..Len(p) : p[i] = q[i]

\* the command a bracket carries, named as main.c's comments name it
Kind(c) ==
    LET b == Bytes(c)
    IN  CASE b = << OP_RESET >> /\ AllPuts(c) -> "reset"
          [] b = << OP_RTS_TXB0 >> /\ AllPuts(c) -> "ready_to_send"
          [] Len(b) = 2 /\ b[1] = OP_READ_RXB0D0 /\ c.xs[1].ev = "put"
                /\ c.xs[2].ev = "get" -> "read_rx"
          [] Len(b) = 5 /\ b[1] = OP_WRITE /\ b[2] = REG_CNF3 /\ AllPuts(c)
                -> "bit_timing"
          [] Len(b) = 3 /\ b[1] = OP_WRITE /\ b[2] = REG_CANINTE /\ AllPuts(c)
                -> "interrupt_enable"
          [] Len(b) = 3 /\ b[1] = OP_WRITE /\ b[2] = REG_RXB0CTRL /\ AllPuts(c)
                -> "accept_any"
          [] Len(b) = 3 /\ b[1] = OP_WRITE /\ b[2] = REG_CANCTRL /\ AllPuts(c)
                -> "mode"
          [] Len(b) = 8 /\ b[1] = OP_WRITE /\ b[2] = REG_TXB0SIDH /\ AllPuts(c)
                -> "load_tx"
          [] OTHER -> "other"

\* the kinds of the closed brackets among cs, in order
ClosedKinds(cs) ==
    LET done == SelectSeq(cs, LAMBDA c : c.closed)
    IN  [k \in 1..Len(done) |-> Kind(done[k])]

\* every bracket of cs but the last has been closed
OnlyLastOpen(cs) == \A k \in 1..(Len(cs) - 1) : cs[k].closed

\* the n-th handler invocation has returned
Returned(n) == n <= invocations /\ \A i \in 1..Len(stack) : stack[i].inv # n

\* the bytes the controller returned to the n-th invocation
ReceivedBy(n) ==
    UNION { {log[k].xs[j].b : j \in {i \in 1..Len(log[k].xs) : log[k].xs[i].ev = "get"}} :
            k \in {i \in 1..Len(log) : log[i].ctx = n} }

\* the payload bytes the n-th invocation wrote: the eighth byte of a bracket
\* it opened with a write to the transmit buffer
PayloadsOf(n) ==
    {log[k].xs[8].b : k \in {j \in 1..Len(log) :
         /\ log[j].ctx = n
         /\ Len(log[j].xs) >= 8
         /\ log[j].xs[1].b = OP_WRITE
         /\ log[j].xs[2].b = REG_TXB0SIDH}}

(***************************************************************************)
(* C1                                                                      *)
(***************************************************************************)
\* C1: the payload byte a handler invocation writes into the transmit buffer
\* is (v + 1) mod 256, v being the byte its own read-receive-buffer
\* transaction returned; 0xFF yields 0x00.
C1_ReplyIsIncrement ==
    \A n \in 1..invocations :
        \A p \in PayloadsOf(n) :
            /\ ReceivedBy(n) # {}
            /\ \A v \in ReceivedBy(n) : p = (v + 1) % 256 /\ (v = 255 => p = 0)

\* a handler that received 0xFF has written its payload and returned
C1_Witness ==
    \E n \in 1..invocations :
        /\ ReceivedBy(n) = {255}
        /\ PayloadsOf(n) = {0}
        /\ Returned(n)

(***************************************************************************)
(* C2                                                                      *)
(***************************************************************************)
\* the fixed reply address named in main.c's header and at line 61
REPLY_SID == 7

\* the 11-bit standard identifier held by TXBnSIDH and TXBnSIDL
StdId(sidh, sidl) == sidh * 8 + sidl \div 32

\* TXBnSIDL.EXIDE: the frame is sent with an extended identifier
IsExtended(sidl) == (sidl \div 8) % 2 = 1

\* TXBnDLC: data length code and remote-transmission-request bit
Dlc(dlc) == dlc % 16

IsRemote(dlc) == (dlc \div 64) % 2 = 1

\* the register writes issued by handler invocations
HandlerWrites ==
    {k \in 1..Len(log) :
        log[k].ctx >= 1 /\ log[k].xs # << >> /\ log[k].xs[1].b = OP_WRITE}

\* C2: whatever was received, every transmit-buffer load of the handler
\* writes the same identifier and length bytes, and they encode a standard
\* data frame to SID 0x07 with data length 1; every invocation that has
\* returned made exactly one such load.
C2_FixedReplyIdentifier ==
    /\ \A k \in HandlerWrites :
          LET b == Bytes(log[k])
          IN  /\ Len(b) >= 2 => b[2] = REG_TXB0SIDH
              /\ Len(b) >= 4 => StdId(b[3], b[4]) = REPLY_SID /\ ~IsExtended(b[4])
              /\ Len(b) >= 7 => Dlc(b[7]) = 1 /\ ~IsRemote(b[7])
    /\ \A k1, k2 \in HandlerWrites :
          Len(log[k1].xs) >= 7 /\ Len(log[k2].xs) >= 7
              => SubSeq(Bytes(log[k1]), 1, 7) = SubSeq(Bytes(log[k2]), 1, 7)
    /\ \A n \in 1..invocations :
          Returned(n) =>
              Cardinality({k \in HandlerWrites :
                  log[k].ctx = n /\ log[k].closed /\ Len(log[k].xs) = 8}) = 1

\* two invocations that received different bytes have both loaded a reply
C2_Witness ==
    \E n1, n2 \in 1..invocations :
        /\ Returned(n1) /\ Returned(n2)
        /\ ReceivedBy(n1) = {0}
        /\ ReceivedBy(n2) = {255}

(***************************************************************************)
(* C3                                                                      *)
(***************************************************************************)
\* control is at a point where no transaction is in progress: the idle loop
\* of main, or the return of a handler
AtRest == Cur.op \in {"loop", "reti"}

\* the statements that may stand between a select and its deselect
InsideBracket == {"putch", "putch_preinc", "getch", "deselect"}

\* C3: selects and deselects strictly alternate, starting with a select: no
\* select is issued while the chip is selected, no deselect while it is
\* deselected, at most the latest bracket is open, and an open bracket is
\* always on its way to its deselect: the chip is selected only while the
\* running activation is at an exchange or at the deselect, never when
\* control is at rest.
C3_SelectDeselectAlternate ==
    /\ \A k \in 1..Len(log) : ~log[k].nested
    /\ \A j \in 1..Len(stray) : stray[j].ev # "desel"
    /\ OnlyLastOpen(log)
    /\ ss <=> (log # << >> /\ ~log[Len(log)].closed)
    /\ ss => Cur.op \in InsideBracket /\ log[Len(log)].ctx = Top.inv
    /\ AtRest => ~ss

\* a second frame arrives while a handler holds the chip selected
C3_Witness ==
    /\ Len(stack) = 2
    /\ ss
    /\ int0
    /\ Len(frames) >= 2
    /\ invocations = 1

(***************************************************************************)
(* C4                                                                      *)
(***************************************************************************)
StartupKinds ==
    << "reset", "bit_timing", "interrupt_enable", "accept_any", "mode" >>

\* the brackets whose first byte is the reset instruction
Resets ==
    {k \in 1..Len(log) : log[k].xs # << >> /\ log[k].xs[1].b = OP_RESET}

\* C4: main issues exactly five commands, each in its own bracket, in the
\* order reset, bit timing, interrupt enable, filter/mask, mode; reset is the
\* first command on the transport and is issued once, never by the handler.
C4_StartupSequence ==
    LET cs == CmdsOf(0)
    IN  /\ Len(cs) <= 5
        /\ OnlyLastOpen(cs)
        /\ IsPrefix(ClosedKinds(cs), StartupKinds)
        /\ StartupDone => ClosedKinds(cs) = StartupKinds
        /\ log # << >> =>
              /\ log[1].ctx = 0
              /\ log[1].xs # << >> => 1 \in Resets
        /\ Cardinality(Resets) <= 1
        /\ \A k \in Resets : log[k].ctx = 0
        /\ \A k \in 1..Len(log) : log[k].ctx = 0 => k <= 5

\* startup is complete and a handler invocation has gone through
C4_Witness ==
    /\ StartupDone
    /\ Len(log) = 8
    /\ Returned(1)

(***************************************************************************)
(* C5                                                                      *)
(***************************************************************************)
HandlerKinds == << "read_rx", "load_tx", "ready_to_send" >>

\* C5: every handler invocation performs three transactions, read receive
\* buffer, load transmit buffer with the incremented payload, ready to send,
\* in this order, each closed before the next is opened.
C5_HandlerSequence ==
    \A n \in 1..invocations :
        LET cs == CmdsOf(n)
        IN  /\ Len(cs) <= 3
            /\ OnlyLastOpen(cs)
            /\ IsPrefix(ClosedKinds(cs), HandlerKinds)
            /\ Returned(n) => ClosedKinds(cs) = HandlerKinds
            /\ Len(cs) >= 2 /\ cs[2].closed =>
                  cs[2].xs[8].b = (cs[1].xs[2].b + 1) % 256

\* the scenario of the specification: 0x10 received, 0x11 loaded, then
\* ready-to-send
C5_Witness ==
    \E n \in 1..invocations :
        /\ Returned(n)
        /\ ClosedKinds(CmdsOf(n)) = HandlerKinds
        /\ CmdsOf(n)[1].xs[2].b = 16
        /\ CmdsOf(n)[2].xs[8].b = 17

(***************************************************************************)
(* C6                                                                      *)
(***************************************************************************)
\* the last bracket of every invocation that has returned
LastCmds ==
    {CmdsOf(n)[Len(CmdsOf(n))] : n \in {i \in 1..invocations :
        Returned(i) /\ CmdsOf(i) # << >>}}

\* C6, as claimed: the last transaction of every handler invocation is a
\* Bit-Modify command: opcode 0x05, then an address, a mask and a value.
C6_LastIsBitModify ==
    \A c \in LastCmds :
        /\ Len(c.xs) = 4
        /\ AllPuts(c)
        /\ c.xs[1].b = 5

\* C6, amended: the last transaction of every handler invocation is the
\* single-byte Request-To-Send instruction for transmit buffer 0 (0x81); no
\* address, mask or value follows it.
C6_LastIsRequestToSend ==
    /\ \A c \in LastCmds :
          /\ c.closed
          /\ Bytes(c) = << OP_RTS_TXB0 >>
          /\ AllPuts(c)
    /\ \A n \in 1..invocations : Returned(n) => CmdsOf(n) # << >>

\* a handler has flagged its reply ready to send and returned
C6_Witness ==
    /\ Returned(1)
    /\ LastCmds # {}
    /\ Len(stack) = 1

(***************************************************************************)
(* C7                                                                      *)
(***************************************************************************)
\* interrupts are enabled, no handler is running and no notification is pending
Quiescent == SeiDone /\ Len(stack) = 1 /\ ~int0

\* the frames that raised the notification: those that arrived while no
\* earlier notification was pending
Notified == {i \in 1..Len(frames) : ~frames[i].pending}

\* every frame arrived after startup, either while the handler of an earlier
\* frame was running or while the processor idled with nothing pending
ArrivalsAfterStartup ==
    \A i \in 1..Len(frames) :
        \/ frames[i].when = "handler"
        \/ frames[i].when = "idle" /\ ~frames[i].pending

C8_HandlerNotReentered ==
    /\ Len(stack) <= 2
    /\ \A n \in 1..(invocations - 1) : Returned(n)
    /\ \A k \in 1..Len(log) :
          /\ \A j \in 1..Len(log[k].xs) : log[k].xs[j].ctx = log[k].ctx
          /\ log[k].closer \in {-1, log[k].ctx}
    /\ \A k1, k2 \in 1..Len(log) : k1 <= k2 => log[k1].ctx <= log[k2].ctx

\* the controller raises a new notification while a handler, which has
\* already read the earlier frame, is still running
C8_Witness ==
    /\ Len(stack) = 2
    /\ Top.pc > 1 + Len(ISRReadRx)
    /\ int0
    /\ eimsk_int0
    /\ Len(frames) = 2
    /\ ~frames[2].pending

(***************************************************************************)
(* C9                                                                      *)
(***************************************************************************)
\* main is between a select and its deselect
MainInBracket ==
    \E s \in 1..(stack[1].pc - 1) :
        /\ MainCode[s].op = "select"
        /\ \A j \in (s + 1)..(stack[1].pc - 1) : MainCode[j].op # "deselect"

\* a step of main taken after sei () leaves the transport untouched
MainStepQuiet ==
    SeiDone /\ Len(stack) = 1 /\ Len(stack') = 1
        => UNCHANGED << ss, log, stray , regs, txreq, sent >>

\* C9: after sei () main performs no select, exchange or deselect, and a
\* handler never runs while main is inside a bracket: main and handler never
\* use the transport concurrently.
C9_MainLeavesTransport ==
    /\ [][MainStepQuiet]_vars
    /\ [](Len(stack) > 1 => ~MainInBracket)
    /\ [](\A k \in 1..Len(log) : k > 5 => log[k].ctx >= 1)

\* main has been interrupted after sei () and the handler holds the chip
C9_Witness ==
    /\ SeiDone
    /\ Len(stack) = 2
    /\ ss
    /\ Len(log) = 6

(***************************************************************************)
(* C10                                                                     *)
(***************************************************************************)
\* the instruction bytes main.c sends
Opcodes == {OP_RESET, OP_WRITE, OP_READ_RXB0D0, OP_RTS_TXB0}

\* C10: no byte is exchanged while the chip is deselected; every closed
\* bracket holds at least one exchange and carries exactly one complete
\* command; the first byte sent in a bracket is an instruction byte.
C10_OneCommandPerBracket ==
    /\ \A j \in 1..Len(stray) : stray[j].ev \notin {"put", "get"}
    /\ \A k \in 1..Len(log) :
          /\ log[k].closed => Len(log[k].xs) >= 1 /\ Kind(log[k]) # "other"
          /\ log[k].xs # << >> =>
                /\ log[k].xs[1].ev = "put"
                /\ log[k].xs[1].b \in Opcodes
          /\ Len(log[k].xs) >= 2 =>
                log[k].xs[1].b \in {OP_WRITE, OP_READ_RXB0D0}

\* startup and one handler invocation have completed: eight closed brackets
C10_Witness ==
    /\ Len(log) = 8
    /\ \A k \in 1..Len(log) : log[k].closed
    /\ Returned(1)

(***************************************************************************)
(* C11                                                                     *)
(***************************************************************************)
\* the registers startup wrote and the transmit-control bits beside TXREQ
KeptAddrs == RegAddrs \ TxBufferAddrs

\* C11: once startup has completed, and in every step of a handler
\* invocation, the bit timing, interrupt enable, receive control and mode
\* registers and the transmit-control bits other than ready-to-send keep
\* their values: only the transmit-buffer fields the handler loads and the
\* ready-to-send flag change.
C11_HandlerKeepsConfiguration ==
    [][(StartupDone \/ Len(stack) > 1) =>
          \A a \in KeptAddrs : regs'[a] = regs[a]]_vars

\* two invocations have returned, the second reply is loaded and flagged,
\* and the registers startup wrote hold what startup wrote
C11_Witness ==
    /\ Returned(2)
    /\ txreq
    /\ regs[REG_TXB0SIDH + 1] = 224
    /\ regs[REG_TXB0D0] \in {Incr8(v) : v \in ReceivedBy(2)}
    /\ regs[REG_CNF3] = 3
    /\ regs[REG_CANINTE] = 1
    /\ regs[REG_RXB0CTRL] = 96
    /\ regs[REG_CANCTRL] = 0

(***************************************************************************)
(* C12                                                                     *)
(***************************************************************************)
\* the handler is about to raise chip select on a read-receive-buffer bracket
HandlerEndsRead ==
    Len(stack) > 1 /\ Cur.op = "deselect" /\ OpenOpcode = OP_READ_RXB0D0

\* the replies flagged ready to send so far
Replies ==
    {k \in 1..Len(log) : log[k].closed /\ Kind(log[k]) = "ready_to_send"}

\* C12: the notification falls only when a handler deselects its
\* read-receive-buffer transaction, and that deselect makes it fall; a
\* handler starts only on a pending notification no invocation has served;
\* once the latest invocation has returned and no further frame has raised
\* the notification, nothing is pending; there are never more replies than
\* frames that raised the notification.
C12_ReadClearsNotification ==
    /\ [][int0 /\ ~int0' => HandlerEndsRead]_vars
    /\ [][HandlerEndsRead /\ stack' # stack => ~int0']_vars
    /\ [][Len(stack') > Len(stack) =>
            int0 /\ invocations < Cardinality(Notified)]_vars
    /\ [](Len(stack) = 1 /\ invocations = Cardinality(Notified)
             /\ invocations >= 1 => ~int0)
    /\ [](Cardinality(Replies) <= Cardinality(Notified))

\* one frame has been answered by one reply, main idles with interrupts
\* enabled and unmasked, and the notification is not pending
C12_Witness ==
    /\ Len(frames) = 1
    /\ Returned(1)
    /\ Cardinality(Replies) = 1
    /\ Cur.op = "loop"
    /\ sreg_i /\ eimsk_int0
    /\ ~int0

(***************************************************************************)
(* C13                                                                     *)
(***************************************************************************)
\* the n-th invocation has closed its ready-to-send bracket
Flagged(n) ==
    \E k \in 1..Len(log) :
        log[k].ctx = n /\ log[k].closed /\ Kind(log[k]) = "ready_to_send"

\* C13: when every SPI exchange returns and the USART empties its data
\* register after every character, each handler invocation that starts
\* eventually returns to main with the chip deselected, having issued its
\* ready-to-send transaction; a handler never returns before that.
C13_HandlerTerminates ==
    /\ (Len(stack) > 1) ~>
          (Len(stack) = 1 /\ ~ss /\ Returned(invocations)
              /\ \A n \in 1..invocations : Flagged(n))
    /\ [][Len(stack') < Len(stack) => Flagged(Top.inv) /\ ~ss /\ ~ss']_vars

\* the handler was held up waiting for the USART data register to empty,
\* and has since returned to main's idle loop with its reply flagged
C13_Witness ==
    /\ Returned(1)
    /\ Flagged(1)
    /\ Len(stack) = 1
    /\ Cur.op = "loop"
    /\ ~ss
    /\ ~udre

(***************************************************************************)
(* C14                                                                     *)
(***************************************************************************)
\* the first five brackets are main's and carry the startup commands, closed
StartupBracketsClosed ==
    /\ Len(log) >= Len(StartupKinds)
    /\ \A k \in 1..Len(StartupKinds) :
          log[k].ctx = 0 /\ log[k].closed /\ Kind(log[k]) = StartupKinds[k]

\* C14: no handler runs, and no handler has exchanged, selected or
\* deselected anything, until main has deselected the mode write and executed
\* sei (): until then the I flag is clear, whatever the state of the INT0
\* mask and of the notification.
C14_NoHandlerBeforeStartup ==
    /\ ~SeiDone => ~sreg_i /\ Len(stack) = 1 /\ invocations = 0
    /\ invocations >= 1 => StartupDone /\ StartupBracketsClosed
    /\ \A k \in 1..Len(log) : log[k].ctx >= 1 => k > Len(StartupKinds)
    /\ \A j \in 1..Len(stray) : stray[j].ctx = 0

\* main is inside a startup bracket with INT0 unmasked and the notification
\* pending, and no handler has started
C14_Witness ==
    /\ ~StartupDone
    /\ eimsk_int0
    /\ int0
    /\ ss
    /\ Len(log) = 3
    /\ invocations = 0

(***************************************************************************)
(* C15                                                                     *)
(***************************************************************************)
\* the brackets that wrote TXB0D0: a write command whose data bytes reach it
LoadsOfD0 ==
    {k \in 1..Len(log) :
        /\ Len(log[k].xs) >= 3
        /\ log[k].xs[1].b = OP_WRITE
        /\ log[k].xs[2].b <= REG_TXB0D0
        /\ log[k].xs[2].b + Len(log[k].xs) - 3 >= REG_TXB0D0}

Latest(ks) == CHOOSE k \in ks : \A j \in ks : j <= k

\* the invocation whose payload byte sits in TXB0D0, 0 if none was loaded
LoadedBy == IF LoadsOfD0 = {} THEN 0 ELSE log[Latest(LoadsOfD0)].ctx

\* the invocation that last flagged buffer 0 ready to send, 0 if none did
RtsBy == IF Replies = {} THEN 0 ELSE log[Latest(Replies)].ctx

\* The controller completes the transmission of buffer 0: the frame carries
\* the payload byte the buffer holds, and TXREQ is cleared.
CanTransmit ==
    /\ txreq
    /\ txreq' = FALSE
    /\ sent' = Append(sent, [by |-> RtsBy, writer |-> LoadedBy,
                             payload |-> regs[REG_TXB0D0]])
    /\ UNCHANGED << stack, sreg_i, eimsk_int0, int0, rxd0, ss, udre, log,
                    stray, frames, regs, invocations >>

NextTx ==
    \/ Next
    \/ CanTransmit

SpecTx == Init /\ [][NextTx]_vars

\* a data byte of a write command has been clocked in and chip select is
\* still low
WriteOpen == ss /\ OpenOpcode = OP_WRITE /\ Len(OpenBracket) >= 3

\* C15, as claimed: every transmitted reply carries the payload loaded by
\* the invocation that flagged it, and no write to the transmit buffer is
\* under way while a flagged reply awaits transmission.
C15_ReplySentAsLoaded ==
    /\ \A i \in 1..Len(sent) :
          /\ sent[i].writer = sent[i].by
          /\ sent[i].payload \in PayloadsOf(sent[i].by)
    /\ ~(txreq /\ WriteOpen)

\* C15, amended: the handler loads and flags without looking at TXREQ.  A
\* transmitted frame carries the payload of the latest load, which is the
\* load of the invocation that flagged it or of a later invocation; only a
\* later invocation writes to the buffer while a flagged reply awaits
\* transmission; a reply not overwritten carries the byte its invocation
\* received plus one.
C15_ReplySentAsLastLoaded ==
    /\ \A i \in 1..Len(sent) :
          /\ sent[i].by >= 1
          /\ sent[i].writer >= sent[i].by
          /\ sent[i].payload \in PayloadsOf(sent[i].writer)
          /\ sent[i].writer = sent[i].by =>
                sent[i].payload \in {Incr8(v) : v \in ReceivedBy(sent[i].by)}
    /\ txreq /\ WriteOpen => log[Len(log)].ctx > RtsBy

\* the reply flagged by the first invocation went out with the payload the
\* second invocation loaded, which is not the first frame's byte plus one
C15_Witness ==
    /\ Len(sent) >= 1
    /\ sent[1].by = 1
    /\ sent[1].writer = 2
    /\ sent[1].payload \notin {Incr8(v) : v \in ReceivedBy(1)}

(***************************************************************************)
(* C16                                                                     *)
(***************************************************************************)
\* the running activation executes line 91, UDR0 = c
WritesUdr ==
    /\ Cur.op = "printf"
    /\ Top.w
    /\ Len(stack') = Len(stack)
    /\ stack' # stack

\* C16: every write of a character to UDR0 is made while UDRE0 is set,
\* whether main or the handler makes it and however the handler's printf
\* calls interleave with main's printf of line 170, for frames that arrive
\* after interrupts have been enabled.
C16_WritesOnlyWhenEmpty ==
    [][WritesUdr /\ ArrivalsAfterStartup => udre]_vars

=============================================================================
